---- MODULE Spec2Model ----
(***************************************************************************)
(* Post-processing core of the DuneNet model API (api_server/main.py):     *)
(* the traversability cost grid, the traversability statistics, the class  *)
(* distribution of the two pipelines and the overlay compositor.           *)
(*                                                                         *)
(* Arrays are 1-based sequences here and 0-based in the source: the pixel  *)
(* class_mask[i][j] of the source is class_mask[i+1][j+1] below.  Operators *)
(* that compute an index (GroundStart, NearestIndex) return the source's   *)
(* 0-based value.                                                          *)
(***************************************************************************)
EXTENDS Integers, Sequences, FiniteSets, TLC

VARIABLES
    class_mask,      \* the ClassMask handed to the function under call
    grid_cols,       \* create_traversability_grid: parameter grid_cols
    grid_rows,       \* create_traversability_grid: parameter grid_rows
    grid_img,        \* create_traversability_grid: local grid_img (class ids)
    trav_grid,       \* value returned by create_traversability_grid
    trav_stats,      \* value returned by calculate_traversability_stats
    class_dist,      \* predict: local class_dist
    sim_class_dist,  \* predict_sim: local class_dist
    dominant,        \* predict_sim: local dominant
    conf,            \* predict_sim: local conf, a quotient <<count, total>>
    image_np,        \* create_overlay: parameter image_np
    alpha,           \* create_overlay: parameter alpha, in tenths
    overlay,         \* value returned by create_overlay
    done,            \* the calls that have returned
    trav_lut,        \* the module-level array _TRAV_LUT as it is in memory
    colored_mask,    \* value returned by colorize_mask
    trav_map,        \* value returned by create_traversability_map
    trav_overlay,    \* predict: local trav_overlay
    calls,           \* number of calls made to the post-processing functions
    first_grid,      \* what create_traversability_grid returned first, by arguments
    first_stats,     \* what calculate_traversability_stats returned first, by mask
    model,           \* the global model
    phase,           \* "import": module loaded; "serving": startup event done
    load_error,      \* the exception load_model caught, "" when none
    requests         \* the requests received, each with its handler's position

rasterVars == <<colored_mask, trav_map, trav_overlay>>

repeatVars == <<calls, first_grid, first_stats>>

dominantVars == <<dominant, conf>>

serverVars == <<model, phase, load_error, requests>>

vars == <<class_mask, grid_cols, grid_rows, grid_img, trav_grid, trav_stats,
          class_dist, sim_class_dist, image_np, alpha, overlay, done,
          trav_lut, rasterVars, repeatVars, serverVars, dominantVars>>

(***************************************************************************)
(* Bounds of the model.                                                    *)
(***************************************************************************)
MaxH == 5
MaxW == 4
MaxGridRows == 3
MaxGridCols == 6
MaxPixels == 6
MaxOverlayH == 2
MaxOverlayW == 2
MaxRequests == 3
MaxCalls == 3

(***************************************************************************)
(* Configuration and taxonomy tables (main.py 38-101).                     *)
(***************************************************************************)
NUM_CLASSES == 10

ClassIds == 0 .. (NUM_CLASSES - 1)

CLASS_NAMES ==
    << "Trees", "Lush Bushes", "Dry Grass", "Dry Bushes", "Ground Clutter",
       "Flowers", "Logs", "Rocks", "Landscape", "Sky" >>

CLASS_COLORS ==
    << <<34, 139, 34>>, <<0, 255, 127>>, <<189, 183, 107>>, <<139, 119, 101>>,
       <<160, 82, 45>>, <<255, 105, 180>>, <<139, 69, 19>>, <<128, 128, 128>>,
       <<210, 180, 140>>, <<135, 206, 235>> >>

\* TRAVERSABILITY[c + 1] is the source's TRAVERSABILITY[c].
TRAVERSABILITY ==
    << "no_go", "no_go", "go", "caution", "caution",
       "go", "no_go", "caution", "go", "sky" >>

TRAV_COLORS ==
    [go |-> <<0, 200, 0>>, caution |-> <<255, 180, 0>>,
     no_go |-> <<220, 30, 30>>, sky |-> <<180, 210, 240>>]

\* Faulty variant of _TRAV_LUT: Rocks (7) entered as blocked.
TravLutRocksBlocked == << 10, 10, 0, 5, 5, 0, 10, 10, 0, -1 >>

\* _TRAV_LUT[c + 1] is the source's _TRAV_LUT[c] (dtype int8).
_TRAV_LUT == << 10, 10, 0, 5, 5, 0, 10, 5, 0, -1 >>

NoValue == << >>

\* The variables a specification does not use.
NoRasters == colored_mask = NoValue /\ trav_map = NoValue /\ trav_overlay = NoValue

NoDominant == dominant = NoValue /\ conf = NoValue

NoHistory == calls = 0 /\ first_grid = << >> /\ first_stats = << >>

NoServer ==
    model = "None" /\ phase = "import" /\ load_error = "" /\ requests = << >>

(***************************************************************************)
(* Array helpers.                                                          *)
(***************************************************************************)
\* class_mask.shape
Height(mask) == Len(mask)
Width(mask) == Len(mask[1])

(***************************************************************************)
(* create_traversability_grid (main.py 368-391).                           *)
(***************************************************************************)
\* Exponent e with 2^e < n <= 2^(e+1), for n >= 2: the binade just below n.
RECURSIVE BinadeBelow(_, _)
BinadeBelow(n, p) == IF 2 * p >= n THEN p ELSE BinadeBelow(n, 2 * p)

\* Faulty variant of GroundStart: the horizon fraction 0.3 instead of 0.35.
GroundStartThirty(h) == (30 * h) \div 100

\* int(h * 0.35) in IEEE double arithmetic.  The double nearest 0.35 is
\* 0.35 - 0.4 * 2^-54, so the product lies below 7h/20 by 0.4*h*2^-54.  When
\* 7h/20 is no integer the truncation is that of the exact value.  When it is
\* an integer N, the product rounds to the double just below N exactly when
\* 0.4*h*2^-54 exceeds half the spacing 2^(e-52) of the doubles below N
\* (2^e < N <= 2^(e+1)), i.e. when h > 5 * 2^e; the first such h is 180.
GroundStart(h) ==
    LET q == (35 * h) \div 100
    IN  IF (35 * h) % 100 = 0 /\ q >= 2 /\ h > 5 * BinadeBelow(q, 1)
        THEN q - 1
        ELSE q

\* ground_mask = class_mask[ground_start:, :]
GroundMask(mask) == SubSeq(mask, GroundStart(Height(mask)) + 1, Height(mask))

\* Output indices k (with n_in input and n_out output samples, both at most
\* 12) at which PIL's nearest-neighbour scaling lands one pixel before the
\* exact cell centre: PIL starts at the double (n_in/n_out)*0.5 and adds the
\* double n_in/n_out once per output sample, and where the exact centre
\* (2k+1)*n_in/(2*n_out) is an integer these are the cases in which the
\* accumulated double is just below it.
AccumulatedBelow ==
    { <<2, 7, 3>>, <<4, 6, 4>>, <<4, 7, 3>>, <<4, 10, 7>>,
      <<6, 9, 4>>, <<6, 11, 5>>, <<8, 6, 4>>, <<8, 7, 3>>, <<8, 10, 7>>,
      <<8, 12, 4>>, <<12, 9, 4>>, <<12, 11, 5>> }

\* Faulty variant of NearestIndex: top-left aligned sampling, floor(k * n_in / n_out).
NearestIndexTopLeft(k, n_in, n_out) == (k * n_in) \div n_out

\* Faulty variant of NearestIndex: the centre coordinate rounded to the
\* nearest pixel instead of cut off.
NearestIndexRounded(k, n_in, n_out) ==
    LET i == ((2 * k + 1) * n_in + n_out) \div (2 * n_out)
    IN  IF i >= n_in THEN n_in - 1 ELSE i

\* Image.resize(..., Image.NEAREST): the input sample read for output sample
\* k, both 0-based: the truncation of the accumulated centre coordinate.
NearestIndex(k, n_in, n_out) ==
    LET fl == ((2 * k + 1) * n_in) \div (2 * n_out)
    IN  IF <<n_in, n_out, k>> \in AccumulatedBelow THEN fl - 1 ELSE fl

\* np.array(Image.fromarray(ground_mask).resize((grid_cols, grid_rows),
\* Image.NEAREST)): shape (grid_rows, grid_cols).
ResizeNearest(ground_mask, cols, rows) ==
    LET gh == Len(ground_mask)
        gw == Len(ground_mask[1])
    IN  [r \in 1 .. rows |->
            [c \in 1 .. cols |->
                ground_mask[NearestIndex(r - 1, gh, rows) + 1]
                           [NearestIndex(c - 1, gw, cols) + 1]]]

\* Faulty variant of SkyOverride: the negative Sky cost is left in the grid.
SkyOverrideMissing(cost) == cost

\* Faulty variant of SkyOverride: Sky is reported as blocked.
SkyOverrideBlocked(cost) == IF cost < 0 THEN 10 ELSE cost

\* cost_grid[cost_grid < 0] = 0, per cell
SkyOverride(cost) == IF cost < 0 THEN 0 ELSE cost

\* cost_grid = lut[grid_img]; cost_grid[cost_grid < 0] = 0; tolist(), lut
\* being the array the name _TRAV_LUT refers to
CostGridFrom(lut, img) ==
    [r \in 1 .. Len(img) |->
        [c \in 1 .. Len(img[r]) |-> SkyOverride(lut[img[r][c] + 1])]]

CostGridOf(img) == CostGridFrom(_TRAV_LUT, img)

\* Faulty variant of TableAfterOverride: cost_grid is a view of the table, and
\* the overwrite of the negative costs reaches it.
TableAfterOverrideAliased(lut) == [c \in DOMAIN lut |-> SkyOverride(lut[c])]

\* The table after "cost_grid = _TRAV_LUT[grid_img]; cost_grid[cost_grid < 0]
\* = 0": indexing by an array builds a new array, so the overwrite in place
\* changes cost_grid alone.
TableAfterOverride(lut) == lut

\* create_traversability_grid(class_mask, grid_cols, grid_rows), before tolist()
TraversabilityGrid(mask, cols, rows) ==
    LET ground_mask == GroundMask(mask)
        resized == ResizeNearest(ground_mask, cols, rows)
    IN  CostGridOf(resized)

\* Masks the grid is computed for: a background class (a blocked or a free
\* one) with one pixel of any class, and a top band of any class over a
\* background class.
BackgroundClasses == {0, 2}

SpotMask(h, w, bg, si, sj, sc) ==
    [i \in 1 .. h |-> [j \in 1 .. w |-> IF i = si /\ j = sj THEN sc ELSE bg]]

BandMask(h, w, k, top, bottom) ==
    [i \in 1 .. h |-> [j \in 1 .. w |-> IF i <= k THEN top ELSE bottom]]

GridMasks(max_h, max_w) ==
    UNION { { SpotMask(h, w, bg, si, sj, sc) :
                bg \in BackgroundClasses, si \in 1 .. h, sj \in 1 .. w,
                sc \in ClassIds }
            \cup
            { BandMask(h, w, k, top, bottom) :
                k \in 0 .. h, top \in ClassIds, bottom \in BackgroundClasses }
          : h \in 1 .. max_h, w \in 1 .. max_w }

InitGrid ==
    /\ class_mask \in GridMasks(MaxH, MaxW)
    /\ grid_cols \in 1 .. MaxGridCols
    /\ grid_rows \in 1 .. MaxGridRows
    /\ grid_img = NoValue
    /\ trav_grid = NoValue
    /\ trav_stats = NoValue
    /\ class_dist = NoValue
    /\ sim_class_dist = NoValue
    /\ image_np = NoValue
    /\ alpha = 0
    /\ overlay = NoValue
    /\ done = {}
    /\ trav_lut = _TRAV_LUT
    /\ NoRasters /\ NoDominant /\ NoHistory /\ NoServer

CreateTraversabilityGrid ==
    /\ "grid" \notin done
    /\ grid_img' = ResizeNearest(GroundMask(class_mask), grid_cols, grid_rows)
    /\ trav_grid' = CostGridFrom(trav_lut, grid_img')
    /\ trav_lut' = TableAfterOverride(trav_lut)
    /\ done' = done \cup {"grid"}
    /\ UNCHANGED <<class_mask, grid_cols, grid_rows, trav_stats, class_dist,
                   sim_class_dist, image_np, alpha, overlay,
                   rasterVars, repeatVars, serverVars, dominantVars>>

NextGrid == CreateTraversabilityGrid

SpecGrid == InitGrid /\ [][NextGrid]_vars

(***************************************************************************)
(* Percentages: f"{(count / total * 100):.1f}%" (main.py 231-233, 300, 452). *)
(***************************************************************************)
\* Faulty variant of PercentTenths: rounded up to the next tenth.
PercentTenthsCeil(count, total) == (1000 * count + total - 1) \div total

\* Faulty variant of PercentTenths: cut to the tenth below.
PercentTenthsTrunc(count, total) == (1000 * count) \div total

\* The number printed by the format .1f for the double count/total*100, in
\* tenths of a percent: the tenth nearest to the double.  For total < 80 the
\* double is on the same side of every half-tenth as the exact quotient, and
\* where the quotient is exactly a half-tenth (total a multiple of 16) the
\* double is exact and the format rounds it to the even tenth.
PercentTenths(count, total) ==
    LET q == (1000 * count) \div total
        r == (1000 * count) % total
    IN  IF 2 * r > total THEN q + 1
        ELSE IF 2 * r < total THEN q
        ELSE IF q % 2 = 0 THEN q ELSE q + 1

Digits == << "0", "1", "2", "3", "4", "5", "6", "7", "8", "9" >>

\* The decimal digits of n >= 0.
RECURSIVE IntegerDigits(_)
IntegerDigits(n) ==
    IF n < 10 THEN Digits[n + 1]
    ELSE IntegerDigits(n \div 10) \o Digits[(n % 10) + 1]

\* The text of tenths/10 with one decimal place and a percent sign.
FormatTenths(tenths) ==
    IntegerDigits(tenths \div 10) \o "." \o Digits[(tenths % 10) + 1] \o "%"

\* f"{(count / total * 100):.1f}%"
FormatPercent(count, total) == FormatTenths(PercentTenths(count, total))

(***************************************************************************)
(* calculate_traversability_stats (main.py 206-234).                       *)
(***************************************************************************)
Pixels(mask) == (1 .. Height(mask)) \X (1 .. Width(mask))

\* class_mask.size
TotalPixels(mask) == Height(mask) * Width(mask)

\* (class_mask == c).sum()
CountEq(mask, c) == Cardinality({ p \in Pixels(mask) : mask[p[1]][p[2]] = c })

\* Faulty variant of SkyPixels: the Sky id taken to be 8.
SkyPixelsWrongId(mask) == CountEq(mask, 8)

\* sky_pixels = (class_mask == 9).sum()
SkyPixels(mask) == CountEq(mask, 9)

\* Faulty variant of GroundPixels: Sky pixels left in the denominator.
GroundPixelsWithSky(mask) == TotalPixels(mask)

\* ground_pixels = total_pixels - sky_pixels
GroundPixels(mask) == TotalPixels(mask) - SkyPixels(mask)

\* The loop over TRAVERSABILITY.items(), from class_id on: the pixels added to
\* the counter of the given category.
RECURSIVE CategoryPixelsFrom(_, _, _)
CategoryPixelsFrom(mask, category, class_id) ==
    IF class_id = NUM_CLASSES THEN 0
    ELSE (IF TRAVERSABILITY[class_id + 1] # "sky"
             /\ TRAVERSABILITY[class_id + 1] = category
          THEN CountEq(mask, class_id)
          ELSE 0)
         + CategoryPixelsFrom(mask, category, class_id + 1)

\* return {'safe': '0%', 'caution': '0%', 'blocked': '0%'}
ZeroGroundStats == [safe |-> "0%", caution |-> "0%", blocked |-> "0%"]

TraversabilityStats(mask) ==
    LET ground_pixels == GroundPixels(mask)
    IN  IF ground_pixels = 0
        THEN ZeroGroundStats
        ELSE [safe    |-> FormatPercent(CategoryPixelsFrom(mask, "go", 0),
                                        ground_pixels),
              caution |-> FormatPercent(CategoryPixelsFrom(mask, "caution", 0),
                                        ground_pixels),
              blocked |-> FormatPercent(CategoryPixelsFrom(mask, "no_go", 0),
                                        ground_pixels)]

\* Masks the statistics and the distributions are computed for: every count
\* of every class, the pixels laid out in class order, in every shape.
RECURSIVE SortedPixels(_, _)
SortedPixels(n, lowest) ==
    IF n = 0 THEN { << >> }
    ELSE UNION { { <<v>> \o rest : rest \in SortedPixels(n - 1, v) } :
                 v \in lowest .. (NUM_CLASSES - 1) }

Reshape(flat, h, w) ==
    [i \in 1 .. h |-> [j \in 1 .. w |-> flat[(i - 1) * w + j]]]

CountMasks(max_pixels) ==
    UNION { { Reshape(flat, shape[1], shape[2]) :
                flat \in SortedPixels(shape[1] * shape[2], 0) } :
            shape \in { sh \in (1 .. max_pixels) \X (1 .. max_pixels) :
                          sh[1] * sh[2] <= max_pixels } }

InitCounts ==
    /\ class_mask \in CountMasks(MaxPixels)
    /\ grid_cols = 0
    /\ grid_rows = 0
    /\ grid_img = NoValue
    /\ trav_grid = NoValue
    /\ trav_stats = NoValue
    /\ class_dist = NoValue
    /\ sim_class_dist = NoValue
    /\ image_np = NoValue
    /\ alpha = 0
    /\ overlay = NoValue
    /\ done = {}
    /\ trav_lut = _TRAV_LUT
    /\ NoRasters /\ NoDominant /\ NoHistory /\ NoServer

CalculateTraversabilityStats ==
    /\ "stats" \notin done
    /\ trav_stats' = TraversabilityStats(class_mask)
    /\ done' = done \cup {"stats"}
    /\ UNCHANGED <<class_mask, grid_cols, grid_rows, grid_img, trav_grid,
                   class_dist, sim_class_dist, image_np, alpha, overlay,
                   trav_lut, rasterVars, repeatVars, serverVars, dominantVars>>

NextStats == CalculateTraversabilityStats

SpecStats == InitCounts /\ [][NextStats]_vars

(***************************************************************************)
(* Class distribution of predict (main.py 294-300) and of predict_sim      *)
(* (main.py 449-453).                                                      *)
(***************************************************************************)
\* predict: the loop "for c in range(NUM_CLASSES)" from class c on, class_dist
\* being the dictionary built so far.
RECURSIVE PredictDistFrom(_, _, _)
PredictDistFrom(mask, c, dist) ==
    IF c = NUM_CLASSES THEN dist
    ELSE LET count == CountEq(mask, c)
             total_pixels == TotalPixels(mask)
         IN  PredictDistFrom(mask, c + 1,
                 IF count > 0
                 THEN (CLASS_NAMES[c + 1] :> FormatPercent(count, total_pixels))
                      @@ dist
                 ELSE dist)

PredictClassDist(mask) == PredictDistFrom(mask, 0, << >>)

\* pred_mask.flatten()
RECURSIVE FlattenFrom(_, _)
FlattenFrom(mask, i) ==
    IF i > Height(mask) THEN << >> ELSE mask[i] \o FlattenFrom(mask, i + 1)

\* np.bincount(flat, minlength): one pass over the pixels, from pixel i on.
RECURSIVE BincountFrom(_, _, _)
BincountFrom(flat, i, counts) ==
    IF i > Len(flat) THEN counts
    ELSE BincountFrom(flat, i + 1,
                      [counts EXCEPT ![flat[i] + 1] = counts[flat[i] + 1] + 1])

Bincount(flat, minlength) ==
    BincountFrom(flat, 1, [k \in 1 .. minlength |-> 0])

\* counts.sum()
RECURSIVE SumFrom(_, _)
SumFrom(counts, i) ==
    IF i > Len(counts) THEN 0 ELSE counts[i] + SumFrom(counts, i + 1)

\* Faulty variant of SimReports: a class is reported whatever its count.
SimReportsAlways(count) == TRUE

\* predict_sim: the filter "if counts[i] > 0" of the comprehension
SimReports(count) == count > 0

\* predict_sim: {CLASS_NAMES[i]: f"{counts[i] / total * 100:.1f}%" for i in
\* range(NUM_CLASSES) if counts[i] > 0}
SimClassDist(mask) ==
    LET counts == Bincount(FlattenFrom(mask, 1), NUM_CLASSES)
        total == SumFrom(counts, 1)
        kept == { i \in 1 .. NUM_CLASSES : SimReports(counts[i]) }
        index(name) == CHOOSE i \in kept : CLASS_NAMES[i] = name
    IN  [name \in { CLASS_NAMES[i] : i \in kept } |->
            FormatPercent(counts[index(name)], total)]

PredictClassDistribution ==
    /\ "dist" \notin done
    /\ class_dist' = PredictClassDist(class_mask)
    /\ done' = done \cup {"dist"}
    /\ UNCHANGED <<class_mask, grid_cols, grid_rows, grid_img, trav_grid,
                   trav_stats, sim_class_dist, image_np, alpha, overlay,
                   trav_lut, rasterVars, repeatVars, serverVars, dominantVars>>

PredictSimClassDistribution ==
    /\ "sim_dist" \notin done
    /\ sim_class_dist' = SimClassDist(class_mask)
    /\ done' = done \cup {"sim_dist"}
    /\ UNCHANGED <<class_mask, grid_cols, grid_rows, grid_img, trav_grid,
                   trav_stats, class_dist, image_np, alpha, overlay,
                   trav_lut, rasterVars, repeatVars, serverVars, dominantVars>>

NextDist == PredictClassDistribution \/ PredictSimClassDistribution

SpecDist == InitCounts /\ [][NextDist]_vars

(***************************************************************************)
(* Dominant class and confidence of predict_sim (main.py 455-464).         *)
(***************************************************************************)
\* Faulty variant of ArgmaxFrom: among equal counts the last index wins.
RECURSIVE ArgmaxFromLast(_, _, _)
ArgmaxFromLast(counts, i, best) ==
    IF i > Len(counts) THEN best - 1
    ELSE ArgmaxFromLast(counts, i + 1,
                        IF counts[i] >= counts[best] THEN i ELSE best)

\* counts.argmax(): one pass over the array from index i on, best being the
\* index of the largest count seen so far; only a strictly larger count
\* replaces it, so the first occurrence of the maximum is returned. The
\* array is held 1-based, the result is the 0-based index numpy returns.
RECURSIVE ArgmaxFrom(_, _, _)
ArgmaxFrom(counts, i, best) ==
    IF i > Len(counts) THEN best - 1
    ELSE ArgmaxFrom(counts, i + 1,
                    IF counts[i] > counts[best] THEN i ELSE best)

Argmax(counts) == ArgmaxFrom(counts, 2, 1)

RECURSIVE Gcd(_, _)
Gcd(a, b) == IF b = 0 THEN a ELSE Gcd(b, a % b)

\* counts[dominant] / total: true division of two integers, the float64
\* nearest to the quotient. The quotient is kept as the fraction in lowest
\* terms <<numerator, denominator>>: equal quotients give the same float, and
\* the rounding is monotone, so the order against 0.1 and 1.0 is that of the
\* fractions.
TrueDivide(count, total) ==
    LET g == Gcd(count, total) IN << count \div g, total \div g >>

\* predict_sim: dominant = int(counts.argmax())
SimDominant(mask) == Argmax(Bincount(FlattenFrom(mask, 1), NUM_CLASSES))

\* predict_sim: conf = float(counts[dominant] / total)
SimConfidence(mask) ==
    LET counts == Bincount(FlattenFrom(mask, 1), NUM_CLASSES)
        total == SumFrom(counts, 1)
    IN  TrueDivide(counts[Argmax(counts) + 1], total)

\* predict_sim, lines 455-456, which follow the class distribution of lines
\* 450-453 in the handler.
PredictSimDominant ==
    /\ "sim_dist" \in done
    /\ "dominant" \notin done
    /\ dominant' = SimDominant(class_mask)
    /\ conf' = SimConfidence(class_mask)
    /\ done' = done \cup {"dominant"}
    /\ UNCHANGED <<class_mask, grid_cols, grid_rows, grid_img, trav_grid,
                   trav_stats, class_dist, sim_class_dist, image_np, alpha,
                   overlay, trav_lut, rasterVars, repeatVars, serverVars>>

\* Masks in which every class has exactly one pixel, in every shape: the
\* masks with the smallest share a dominant class can have.
OneOfEachMasks ==
    { Reshape([k \in 1 .. NUM_CLASSES |-> k - 1], shape[1], shape[2]) :
        shape \in { sh \in (1 .. NUM_CLASSES) \X (1 .. NUM_CLASSES) :
                      sh[1] * sh[2] = NUM_CLASSES } }

InitDominant ==
    /\ class_mask \in CountMasks(MaxPixels) \cup OneOfEachMasks
    /\ grid_cols = 0
    /\ grid_rows = 0
    /\ grid_img = NoValue
    /\ trav_grid = NoValue
    /\ trav_stats = NoValue
    /\ class_dist = NoValue
    /\ sim_class_dist = NoValue
    /\ image_np = NoValue
    /\ alpha = 0
    /\ overlay = NoValue
    /\ done = {}
    /\ trav_lut = _TRAV_LUT
    /\ NoRasters /\ NoDominant /\ NoHistory /\ NoServer

NextDominant == PredictSimClassDistribution \/ PredictSimDominant

SpecDominant == InitDominant /\ [][NextDominant]_vars

(***************************************************************************)
(* colorize_mask and create_overlay (main.py 178-191).                     *)
(***************************************************************************)
\* Faulty variant of ColorOf: a value that is no class takes the colour of the
\* class it is congruent to.
ColorOfWrapped(class_id) == CLASS_COLORS[(class_id % NUM_CLASSES) + 1]

\* rgb = zeros; for c in range(NUM_CLASSES): rgb[class_mask == c] =
\* CLASS_COLORS[c], for one pixel: a class outside the range stays black.
ColorOf(class_id) ==
    IF class_id \in ClassIds THEN CLASS_COLORS[class_id + 1] ELSE <<0, 0, 0>>

ColorizeMask(mask) ==
    [i \in 1 .. Height(mask) |-> [j \in 1 .. Width(mask) |-> ColorOf(mask[i][j])]]

\* The float32 nearest to t/10, as <<m, k>> standing for m / 2^k with m below
\* 2^24: what numpy makes of the Python scalars alpha and 1 - alpha when they
\* multiply a float32 array (1 - alpha, computed in double, becomes the same
\* float32 as (10 - t)/10 for every t).
Float32Tenth ==
    << <<13421773, 27>>, <<13421773, 26>>, <<10066330, 25>>, <<13421773, 25>>,
       <<8388608, 24>>, <<10066330, 24>>, <<11744051, 24>>, <<13421773, 24>>,
       <<15099494, 24>>, <<8388608, 23>> >>

Float32Weight(t) == IF t = 0 THEN <<0, 23>> ELSE Float32Tenth[t]

\* kept, the number with its low bits (rem of them, out of 2 * half) dropped,
\* rounded to nearest, ties to even.
RoundHalfEven(kept, rem, half) ==
    IF rem > half \/ (rem = half /\ kept % 2 = 1) THEN kept + 1 ELSE kept

\* The number of low bits the 36-bit product hi * 2^12 + lo loses when it is
\* kept in 24 bits.
RECURSIVE ExcessBits(_, _)
ExcessBits(hi, d) == IF hi < 2 ^ (12 + d) THEN d ELSE ExcessBits(hi, d + 1)

\* The float32 product of the byte x (exact in float32) and the float32 f:
\* the exact product x * m, held in two 12-bit limbs, rounded to 24 bits.
Float32Mul(x, f) ==
    LET m == f[1]
        low == x * (m % 4096)
        hi == x * (m \div 4096) + low \div 4096
        lo == low % 4096
        d == ExcessBits(hi, 0)
    IN  IF d = 0
        THEN << hi * 4096 + lo, f[2] >>
        ELSE << RoundHalfEven(hi * 2 ^ (12 - d) + lo \div 2 ^ d,
                              lo % 2 ^ d, 2 ^ (d - 1)),
                f[2] - d >>

\* The float32 sum of two float32 products f and g: the exact sum rounded to
\* 24 bits.  A nonzero product has its m in [2^23, 2^24], so after alignment
\* to the coarser unit the sum has 24 or 25 bits before the finer one's low
\* bits.
Float32Add(f, g) ==
    IF f[1] = 0 THEN g
    ELSE IF g[1] = 0 THEN f
    ELSE LET fine == IF f[2] >= g[2] THEN f ELSE g
             coarse == IF f[2] >= g[2] THEN g ELSE f
             s == fine[2] - coarse[2]
             high == fine[1] \div 2 ^ s + coarse[1]
             low == fine[1] % 2 ^ s
         IN  IF high < 2 ^ 24
             THEN IF s = 0 THEN << high, coarse[2] >>
                  ELSE << RoundHalfEven(high, low, 2 ^ (s - 1)), coarse[2] >>
             ELSE << RoundHalfEven(high \div 2, (high % 2) * 2 ^ s + low, 2 ^ s),
                     coarse[2] - 1 >>

\* astype(np.uint8) of a float32 in [0, 256): the fraction is cut off.
AsUint8(f) == f[1] \div 2 ^ f[2]

\* Faulty variant of BlendChannel: the two weights exchanged.
BlendChannelSwapped(image, colored, a) ==
    (image * a + colored * (10 - a)) \div 10

\* Faulty variant of BlendChannel: the blend rounded to the nearest byte.
BlendChannelRounded(image, colored, a) ==
    (2 * (image * (10 - a) + colored * a) + 10) \div 20

\* (image.astype(np.float32) * (1 - alpha) + colored.astype(np.float32) * alpha)
\* .astype(np.uint8) for one channel, alpha being a/10: two float32 products,
\* their float32 sum, and the fraction cut off.
BlendChannel(image, colored, a) ==
    AsUint8(Float32Add(Float32Mul(image, Float32Weight(10 - a)),
                       Float32Mul(colored, Float32Weight(a))))

CreateOverlayOf(image, mask, a) ==
    LET colored == ColorizeMask(mask)
    IN  [i \in 1 .. Len(image) |->
            [j \in 1 .. Len(image[i]) |->
                [k \in 1 .. 3 |->
                    BlendChannel(image[i][j][k], colored[i][j][k], a)]]]

\* Images and alphas the overlay is computed for: an image of one
\* colour with one pixel of another, under a mask of the same shape with its
\* odd pixel at the same place.
ImagePixels == { <<0, 0, 0>>, <<255, 255, 255>>, <<1, 128, 254>>, <<34, 139, 35>> }

AlphaTenths == 0 .. 10

SpotImage(h, w, base, si, sj, spot) ==
    [i \in 1 .. h |-> [j \in 1 .. w |-> IF i = si /\ j = sj THEN spot ELSE base]]

InitOverlay ==
    /\ \E h \in 1 .. MaxOverlayH, w \in 1 .. MaxOverlayW :
         \E si \in 1 .. h, sj \in 1 .. w :
            /\ \E bg \in BackgroundClasses, sc \in ClassIds :
                   class_mask = SpotMask(h, w, bg, si, sj, sc)
            /\ \E base \in ImagePixels, spot \in ImagePixels :
                   image_np = SpotImage(h, w, base, si, sj, spot)
    /\ alpha \in AlphaTenths
    /\ grid_cols = 0
    /\ grid_rows = 0
    /\ grid_img = NoValue
    /\ trav_grid = NoValue
    /\ trav_stats = NoValue
    /\ class_dist = NoValue
    /\ sim_class_dist = NoValue
    /\ overlay = NoValue
    /\ done = {}
    /\ trav_lut = _TRAV_LUT
    /\ NoRasters /\ NoDominant /\ NoHistory /\ NoServer

CreateOverlay ==
    /\ "overlay" \notin done
    /\ overlay' = CreateOverlayOf(image_np, class_mask, alpha)
    /\ done' = done \cup {"overlay"}
    /\ UNCHANGED <<class_mask, grid_cols, grid_rows, grid_img, trav_grid,
                   trav_stats, class_dist, sim_class_dist, image_np, alpha,
                   trav_lut, rasterVars, repeatVars, serverVars, dominantVars>>

NextOverlay == CreateOverlay

SpecOverlay == InitOverlay /\ [][NextOverlay]_vars

(***************************************************************************)
(* The traversability overlay of predict (main.py 315-322).                *)
(***************************************************************************)
\* trav_overlay[region] = (image_np[region].astype(np.float32) * 0.4 +
\* colour.astype(np.float32) * 0.6).astype(np.uint8), region = (mask == class_id)
BlendRegion(raster, image, mask, class_id, colour) ==
    [i \in 1 .. Height(mask) |->
        [j \in 1 .. Width(mask) |->
            IF mask[i][j] = class_id
            THEN [k \in 1 .. 3 |-> BlendChannel(image[i][j][k], colour[k], 6)]
            ELSE raster[i][j]]]

\* Faulty variant of TravOverlayFrom: the loop stops before the last entry of
\* TRAVERSABILITY.
RECURSIVE TravOverlayFromShort(_, _, _, _)
TravOverlayFromShort(image, mask, class_id, raster) ==
    IF class_id = NUM_CLASSES - 1 THEN raster
    ELSE TravOverlayFromShort(image, mask, class_id + 1,
             BlendRegion(raster, image, mask, class_id,
                         TRAV_COLORS[TRAVERSABILITY[class_id + 1]]))

\* The loop "for class_id, category in TRAVERSABILITY.items()" of predict,
\* from class_id on.
RECURSIVE TravOverlayFrom(_, _, _, _)
TravOverlayFrom(image, mask, class_id, raster) ==
    IF class_id = NUM_CLASSES THEN raster
    ELSE TravOverlayFrom(image, mask, class_id + 1,
             BlendRegion(raster, image, mask, class_id,
                         TRAV_COLORS[TRAVERSABILITY[class_id + 1]]))

\* trav_overlay = create_overlay(image_np, pred_mask_orig, alpha=0.6),
\* followed by the loop
PredictTravOverlay(image, mask) ==
    TravOverlayFrom(image, mask, 0, CreateOverlayOf(image, mask, 6))

InitTravOverlay ==
    /\ \E h \in 1 .. MaxOverlayH, w \in 1 .. MaxOverlayW :
         \E si \in 1 .. h, sj \in 1 .. w :
            /\ \E bg \in BackgroundClasses, sc \in ClassIds :
                   class_mask = SpotMask(h, w, bg, si, sj, sc)
            /\ \E base \in ImagePixels, spot \in ImagePixels :
                   image_np = SpotImage(h, w, base, si, sj, spot)
    /\ alpha = 6
    /\ grid_cols = 0
    /\ grid_rows = 0
    /\ grid_img = NoValue
    /\ trav_grid = NoValue
    /\ trav_stats = NoValue
    /\ class_dist = NoValue
    /\ sim_class_dist = NoValue
    /\ overlay = NoValue
    /\ done = {}
    /\ trav_lut = _TRAV_LUT
    /\ NoRasters /\ NoDominant /\ NoHistory /\ NoServer

\* predict, lines 315 to 322
CreateTravOverlay ==
    /\ "trav_overlay" \notin done
    /\ overlay' = CreateOverlayOf(image_np, class_mask, alpha)
    /\ trav_overlay' = PredictTravOverlay(image_np, class_mask)
    /\ done' = done \cup {"trav_overlay"}
    /\ UNCHANGED <<class_mask, grid_cols, grid_rows, grid_img, trav_grid,
                   trav_stats, class_dist, sim_class_dist, image_np, alpha,
                   trav_lut, colored_mask, trav_map, repeatVars, serverVars,
                   dominantVars>>

NextTravOverlay == CreateTravOverlay

SpecTravOverlay == InitTravOverlay /\ [][NextTravOverlay]_vars

(***************************************************************************)
(* colorize_mask and create_traversability_map as functions of any uint8   *)
(* mask (main.py 178-184, 194-203).                                        *)
(***************************************************************************)
\* trav_mask[region] = colour, region = (class_mask == class_id)
PaintRegion(raster, mask, class_id, colour) ==
    [i \in 1 .. Height(mask) |->
        [j \in 1 .. Width(mask) |->
            IF mask[i][j] = class_id THEN colour ELSE raster[i][j]]]

\* np.zeros((h, w, 3), dtype=np.uint8)
Zeros(mask) ==
    [i \in 1 .. Height(mask) |-> [j \in 1 .. Width(mask) |-> <<0, 0, 0>>]]

\* The loop "for class_id, category in TRAVERSABILITY.items()" of
\* create_traversability_map, from class_id on.
RECURSIVE TravMapFrom(_, _, _)
TravMapFrom(mask, class_id, trav_mask) ==
    IF class_id = NUM_CLASSES THEN trav_mask
    ELSE TravMapFrom(mask, class_id + 1,
             PaintRegion(trav_mask, mask, class_id,
                         TRAV_COLORS[TRAVERSABILITY[class_id + 1]]))

CreateTraversabilityMap(mask) == TravMapFrom(mask, 0, Zeros(mask))

\* Values of a uint8 mask the two functions are called with: the ten classes
\* and some values that are no class.
NoClassValues == {10, 11, 255}

MaskValues == ClassIds \cup NoClassValues

InitColorize ==
    /\ \E h \in 1 .. MaxOverlayH, w \in 1 .. MaxOverlayW :
         \E si \in 1 .. h, sj \in 1 .. w, bg \in MaskValues, sc \in MaskValues :
            class_mask = SpotMask(h, w, bg, si, sj, sc)
    /\ grid_cols = 0
    /\ grid_rows = 0
    /\ grid_img = NoValue
    /\ trav_grid = NoValue
    /\ trav_stats = NoValue
    /\ class_dist = NoValue
    /\ sim_class_dist = NoValue
    /\ image_np = NoValue
    /\ alpha = 0
    /\ overlay = NoValue
    /\ done = {}
    /\ trav_lut = _TRAV_LUT
    /\ NoRasters /\ NoDominant /\ NoHistory /\ NoServer

\* colorize_mask(class_mask): no statement of it raises for a 2-D mask.
ColorizeMaskCall ==
    /\ "colorize" \notin done
    /\ colored_mask' = ColorizeMask(class_mask)
    /\ done' = done \cup {"colorize"}
    /\ UNCHANGED <<class_mask, grid_cols, grid_rows, grid_img, trav_grid,
                   trav_stats, class_dist, sim_class_dist, image_np, alpha,
                   overlay, trav_lut, trav_map, trav_overlay, repeatVars,
                   serverVars, dominantVars>>

\* create_traversability_map(class_mask): no statement of it raises either.
CreateTraversabilityMapCall ==
    /\ "trav_map" \notin done
    /\ trav_map' = CreateTraversabilityMap(class_mask)
    /\ done' = done \cup {"trav_map"}
    /\ UNCHANGED <<class_mask, grid_cols, grid_rows, grid_img, trav_grid,
                   trav_stats, class_dist, sim_class_dist, image_np, alpha,
                   overlay, trav_lut, colored_mask, trav_overlay, repeatVars,
                   serverVars, dominantVars>>

NextColorize == ColorizeMaskCall \/ CreateTraversabilityMapCall

SpecColorize == InitColorize /\ [][NextColorize]_vars

(***************************************************************************)
(* The server: load_model at startup and the four endpoints (main.py       *)
(* 120-176, 252-349, 404-487).  The handlers are coroutines of one event   *)
(* loop: a handler runs without interruption from one await to the next,   *)
(* and the only await of a handler is "await file.read()".                 *)
(***************************************************************************)
\* What load_model finds on disk: no checkpoint file, a checkpoint whose
\* classifier has another number of classes than NUM_CLASSES (load_state_dict
\* raises a size mismatch), or a checkpoint that loads.
Checkpoints == {"missing", "class_count_mismatch", "loads"}

\* The exception load_model catches, "" when none.
LoadError(checkpoint) ==
    CASE checkpoint = "missing" -> "FileNotFoundError"
      [] checkpoint = "class_count_mismatch" -> "RuntimeError"
      [] OTHER -> ""

\* Faulty variant of ModelAfterLoad: the handler of the exception does not
\* reset model, which keeps the network built before load_state_dict raised.
ModelAfterLoadNoReset(checkpoint) ==
    IF checkpoint = "missing" THEN "None" ELSE "SegformerForSemanticSegmentation"

\* The global model when load_model returns: the network, or None after
\* "except Exception: ... model = None".
ModelAfterLoad(checkpoint) ==
    IF LoadError(checkpoint) = "" THEN "SegformerForSemanticSegmentation"
    ELSE "None"

\* An uploaded file: bytes PIL cannot decode, or an image; an image is
\* represented by the mask the network, which is deterministic in eval mode,
\* predicts for it.
Malformed == [decodable |-> FALSE, pred_mask |-> NoValue]

WellFormed(mask) == [decodable |-> TRUE, pred_mask |-> mask]

NoBody == [decodable |-> FALSE, pred_mask |-> << <<0>> >>]

UploadMasks ==
    { << <<9, 9>>, <<0, 2>>, <<3, 9>> >>,
      << <<0, 0>>, <<0, 0>>, <<0, 0>> >> }

Uploads == {Malformed} \cup { WellFormed(mask) : mask \in UploadMasks }

GetEndpoints == {"/", "/model/info"}

PostEndpoints == {"/predict", "/predict/sim"}

\* A request as the server receives it, its handler not yet started.
NewRequest(endpoint, body) ==
    [endpoint |-> endpoint, body |-> body, pc |-> "start", body_read |-> FALSE,
     status |-> 0, payload |-> NoValue]

\* raise HTTPException(status_code=503, detail="Model not loaded")
ModelNotLoaded(req) ==
    [req EXCEPT !.pc = "done", !.status = 503,
                !.payload = [detail |-> "Model not loaded"]]

\* Faulty variant of HealthPayload: model_loaded reported true always.
HealthPayloadAlwaysLoaded(m) == [status |-> "running", model_loaded |-> TRUE]

\* health_check: {"status": "running", "model_loaded": model is not None, ...}
HealthPayload(m) == [status |-> "running", model_loaded |-> m # "None"]

\* Faulty variant of StatusOfException: the failure to decode the upload
\* reported as the client's error.
StatusOfExceptionClient(exception) ==
    IF exception = "UnidentifiedImageError" THEN 400 ELSE 500

\* except Exception as e: raise HTTPException(status_code=500, ...)
StatusOfException(exception) == 500

\* The exception Image.open raises for bytes that are no image, "" for an
\* image.
DecodeError(body) == IF body.decodable THEN "" ELSE "UnidentifiedImageError"

\* Faulty variant of OwnUpload: the bytes read last by any handler, as if
\* contents were shared between the handlers.
LastUpload(reqs, r) ==
    LET read == { q \in 1 .. Len(reqs) : reqs[q].body_read }
    IN  IF read = {} THEN reqs[r].body
        ELSE reqs[CHOOSE q \in read : \A o \in read : o <= q].body

\* contents = await file.read(): the local contents of handler r
OwnUpload(reqs, r) == reqs[r].body

\* The fields of predict's response computed from the mask (the four images
\* are left out).
PredictPayload(mask) ==
    [class_distribution |-> PredictClassDist(mask),
     traversability_stats |-> TraversabilityStats(mask)]

\* The fields of predict_sim's response computed from the mask, lut being the
\* array the name _TRAV_LUT refers to: create_traversability_grid(pred_mask)
\* with the default grid of 12 columns and 8 rows.
PredictSimPayload(lut, mask) ==
    [traversability_stats |-> TraversabilityStats(mask),
     traversability_grid |->
         CostGridFrom(lut, ResizeNearest(GroundMask(mask), 12, 8)),
     class_distribution |-> SimClassDist(mask),
     dominant_class |-> CLASS_NAMES[SimDominant(mask) + 1],
     confidence |-> SimConfidence(mask)]

InitServer ==
    /\ class_mask = NoValue
    /\ grid_cols = 0
    /\ grid_rows = 0
    /\ grid_img = NoValue
    /\ trav_grid = NoValue
    /\ trav_stats = NoValue
    /\ class_dist = NoValue
    /\ sim_class_dist = NoValue
    /\ image_np = NoValue
    /\ alpha = 0
    /\ overlay = NoValue
    /\ done = {}
    /\ trav_lut = _TRAV_LUT
    /\ NoRasters /\ NoDominant /\ NoHistory
    /\ model = "None"
    /\ phase = "import"
    /\ load_error = ""
    /\ requests = << >>

postprocessingVars ==
    <<class_mask, grid_cols, grid_rows, grid_img, trav_grid, trav_stats,
      class_dist, sim_class_dist, image_np, alpha, overlay, done, rasterVars,
      repeatVars, dominantVars>>

\* @app.on_event("startup") load_model: runs once, before any request is
\* accepted, and the server starts whatever it caught.
LoadModel ==
    /\ phase = "import"
    /\ \E checkpoint \in Checkpoints :
          /\ model' = ModelAfterLoad(checkpoint)
          /\ load_error' = LoadError(checkpoint)
    /\ phase' = "serving"
    /\ UNCHANGED <<requests, trav_lut, postprocessingVars>>

\* A request arrives.
Receive ==
    /\ phase = "serving"
    /\ Len(requests) < MaxRequests
    /\ \E endpoint \in GetEndpoints \cup PostEndpoints :
          \E body \in IF endpoint \in PostEndpoints THEN Uploads ELSE {NoBody} :
              requests' = Append(requests, NewRequest(endpoint, body))
    /\ UNCHANGED <<model, phase, load_error, trav_lut, postprocessingVars>>

\* GET /
HealthCheck(r) ==
    /\ requests[r].endpoint = "/" /\ requests[r].pc = "start"
    /\ requests' = [requests EXCEPT ![r].pc = "done", ![r].status = 200,
                                    ![r].payload = HealthPayload(model)]
    /\ UNCHANGED <<model, phase, load_error, trav_lut, postprocessingVars>>

\* GET /model/info
ModelInfo(r) ==
    /\ requests[r].endpoint = "/model/info" /\ requests[r].pc = "start"
    /\ requests' =
          [requests EXCEPT ![r] =
              IF model = "None" THEN ModelNotLoaded(@)
              ELSE [@ EXCEPT !.pc = "done", !.status = 200,
                             !.payload = [model_type |-> model]]]
    /\ UNCHANGED <<model, phase, load_error, trav_lut, postprocessingVars>>

\* POST /predict and POST /predict/sim up to "contents = await file.read()"
PredictBegin(r) ==
    /\ requests[r].endpoint \in PostEndpoints /\ requests[r].pc = "start"
    /\ requests' =
          [requests EXCEPT ![r] =
              IF model = "None" THEN ModelNotLoaded(@)
              ELSE [@ EXCEPT !.pc = "read"]]
    /\ UNCHANGED <<model, phase, load_error, trav_lut, postprocessingVars>>

\* What the try block of a handler ends with, contents being the bytes read:
\* the response, or the HTTPException made of whatever was raised.
Respond(req, contents, payload) ==
    IF DecodeError(contents) # ""
    THEN [req EXCEPT !.pc = "done", !.body_read = TRUE,
                     !.status = StatusOfException(DecodeError(contents)),
                     !.payload = [detail |-> DecodeError(contents)]]
    ELSE [req EXCEPT !.pc = "done", !.body_read = TRUE, !.status = 200,
                     !.payload = payload]

\* POST /predict from the end of file.read() on
PredictFinish(r) ==
    /\ requests[r].endpoint = "/predict" /\ requests[r].pc = "read"
    /\ LET contents == OwnUpload(requests, r)
       IN  requests' =
              [requests EXCEPT ![r] =
                  Respond(@, contents,
                          IF contents.decodable
                          THEN PredictPayload(contents.pred_mask)
                          ELSE NoValue)]
    /\ UNCHANGED <<model, phase, load_error, trav_lut, postprocessingVars>>

\* POST /predict/sim from the end of file.read() on
PredictSimFinish(r) ==
    /\ requests[r].endpoint = "/predict/sim" /\ requests[r].pc = "read"
    /\ LET contents == OwnUpload(requests, r)
       IN  /\ requests' =
                 [requests EXCEPT ![r] =
                     Respond(@, contents,
                             IF contents.decodable
                             THEN PredictSimPayload(trav_lut, contents.pred_mask)
                             ELSE NoValue)]
           /\ trav_lut' = IF contents.decodable
                          THEN TableAfterOverride(trav_lut)
                          ELSE trav_lut
    /\ UNCHANGED <<model, phase, load_error, postprocessingVars>>

NextServer ==
    \/ LoadModel
    \/ Receive
    \/ \E r \in 1 .. Len(requests) : HealthCheck(r)
    \/ \E r \in 1 .. Len(requests) : ModelInfo(r)
    \/ \E r \in 1 .. Len(requests) : PredictBegin(r)
    \/ \E r \in 1 .. Len(requests) : PredictFinish(r)
    \/ \E r \in 1 .. Len(requests) : PredictSimFinish(r)

SpecServer == InitServer /\ [][NextServer]_vars

(***************************************************************************)
(* Repeated calls of create_traversability_grid and                        *)
(* calculate_traversability_stats in one process, all reading the same     *)
(* module-level _TRAV_LUT (main.py 101, 206-234, 368-391).                 *)
(***************************************************************************)
\* Masks of the repeated calls: with Sky pixels in and above the ground
\* region, and without.
RepeatMasks ==
    { << <<9>> >>,
      << <<9, 0>>, <<2, 9>> >>,
      << <<0, 0>>, <<3, 2>>, <<2, 6>> >> }

RepeatGridSizes == (1 .. 2) \X (1 .. 2)

\* The dictionary first with the value of its first entry for key kept.
Remember(first, key, value) ==
    IF key \in DOMAIN first THEN first ELSE (key :> value) @@ first

InitRepeat ==
    /\ class_mask = NoValue
    /\ grid_cols = 0
    /\ grid_rows = 0
    /\ grid_img = NoValue
    /\ trav_grid = NoValue
    /\ trav_stats = NoValue
    /\ class_dist = NoValue
    /\ sim_class_dist = NoValue
    /\ image_np = NoValue
    /\ alpha = 0
    /\ overlay = NoValue
    /\ done = {}
    /\ trav_lut = _TRAV_LUT
    /\ NoRasters /\ NoDominant /\ NoHistory /\ NoServer

\* One more call create_traversability_grid(mask, cols, rows); done names the
\* latest call.
CallCreateTraversabilityGrid ==
    /\ calls < MaxCalls
    /\ \E mask \in RepeatMasks, size \in RepeatGridSizes :
          /\ class_mask' = mask
          /\ grid_cols' = size[1]
          /\ grid_rows' = size[2]
    /\ grid_img' = ResizeNearest(GroundMask(class_mask'), grid_cols', grid_rows')
    /\ trav_grid' = CostGridFrom(trav_lut, grid_img')
    /\ trav_lut' = TableAfterOverride(trav_lut)
    /\ first_grid' = Remember(first_grid, <<class_mask', grid_cols', grid_rows'>>,
                              trav_grid')
    /\ calls' = calls + 1
    /\ done' = {"grid"}
    /\ UNCHANGED <<trav_stats, class_dist, sim_class_dist, image_np, alpha,
                   overlay, first_stats, rasterVars, serverVars, dominantVars>>

\* One more call calculate_traversability_stats(mask).
CallCalculateTraversabilityStats ==
    /\ calls < MaxCalls
    /\ \E mask \in RepeatMasks : class_mask' = mask
    /\ trav_stats' = TraversabilityStats(class_mask')
    /\ first_stats' = Remember(first_stats, class_mask', trav_stats')
    /\ calls' = calls + 1
    /\ done' = {"stats"}
    /\ UNCHANGED <<grid_cols, grid_rows, grid_img, trav_grid, class_dist,
                   sim_class_dist, image_np, alpha, overlay, trav_lut,
                   first_grid, rasterVars, serverVars, dominantVars>>

NextRepeat == CallCreateTraversabilityGrid \/ CallCalculateTraversabilityStats

SpecRepeat == InitRepeat /\ [][NextRepeat]_vars

(***************************************************************************)
(* The three classifications of one mask: the cost grid (by _TRAV_LUT),    *)
(* the traversability raster and the statistics (by TRAVERSABILITY, the    *)
(* statistics with the Sky id 9 written out).                              *)
(***************************************************************************)
\* Masks of one class, of every class.
UniformMask(h, w, class_id) == [i \in 1 .. h |-> [j \in 1 .. w |-> class_id]]

InitTaxonomy ==
    /\ \E h \in 1 .. MaxH, w \in 1 .. MaxW, class_id \in ClassIds :
          class_mask = UniformMask(h, w, class_id)
    /\ grid_cols \in 1 .. 2
    /\ grid_rows \in 1 .. 2
    /\ grid_img = NoValue
    /\ trav_grid = NoValue
    /\ trav_stats = NoValue
    /\ class_dist = NoValue
    /\ sim_class_dist = NoValue
    /\ image_np = NoValue
    /\ alpha = 0
    /\ overlay = NoValue
    /\ done = {}
    /\ trav_lut = _TRAV_LUT
    /\ NoRasters /\ NoDominant /\ NoHistory /\ NoServer

NextTaxonomy ==
    \/ CreateTraversabilityGrid
    \/ CalculateTraversabilityStats
    \/ CreateTraversabilityMapCall

SpecTaxonomy == InitTaxonomy /\ [][NextTaxonomy]_vars

(***************************************************************************)
(* Properties of create_traversability_grid, checked under SpecGrid.       *)
(***************************************************************************)
GridReturned == "grid" \in done

\* floor(0.35 * h) over the reals
Floor35(h) == (35 * h) \div 100

CostValues == {0, 5, 10}

NoGoClasses == { c \in ClassIds : TRAVERSABILITY[c + 1] = "no_go" }

\* C1: for every mask of height and width at least 1 with values in [0,10)
\* and every grid_rows, grid_cols >= 1, the returned grid has exactly
\* grid_rows rows of exactly grid_cols entries, each a member of {0, 5, 10},
\* whatever the aspect ratio, also when the mask is smaller than the grid.
C1_GridShapeAndValues ==
    GridReturned =>
        /\ Len(trav_grid) = grid_rows
        /\ \A r \in 1 .. grid_rows :
              /\ Len(trav_grid[r]) = grid_cols
              /\ \A c \in 1 .. grid_cols : trav_grid[r][c] \in CostValues

\* A 1x1 mask blown up to a 3x6 grid, and a Sky pixel among those sampled.
C1_Witness ==
    /\ GridReturned
    /\ Height(class_mask) = 1 /\ Width(class_mask) = 1
    /\ class_mask[1][1] = 9
    /\ grid_rows = 3 /\ grid_cols = 6
    /\ trav_grid[3][6] = 0

\* The mask whose top 40% of rows are Sky and whose other rows are one NoGo
\* class.
IsSkyOverNoGo(mask) ==
    \E k \in 1 .. Height(mask), b \in NoGoClasses :
        /\ 5 * k = 2 * Height(mask)
        /\ mask = BandMask(Height(mask), Width(mask), k, 9, b)

\* C2: every grid cell whose sampled class is Sky (id 9) has cost 0, never a
\* negative or blocking cost; for a mask whose top 40% of rows are Sky and
\* whose bottom 60% are a NoGo class, each cell sampled from the Sky band has
\* cost 0 and each cell sampled from the NoGo part has cost 10.
C2_SkyCellsCostZero ==
    GridReturned =>
        \A r \in 1 .. grid_rows, c \in 1 .. grid_cols :
            /\ grid_img[r][c] = 9 => trav_grid[r][c] = 0
            /\ IsSkyOverNoGo(class_mask) =>
                  /\ grid_img[r][c] \in {9} \cup NoGoClasses
                  /\ grid_img[r][c] \in NoGoClasses => trav_grid[r][c] = 10

\* The 5-row Sky-over-NoGo mask: the 35% cut removes one of the two Sky rows,
\* the first grid row samples the surviving Sky row, the second a NoGo row.
C2_Witness ==
    /\ GridReturned
    /\ IsSkyOverNoGo(class_mask)
    /\ grid_rows = 3
    /\ grid_img[1][1] = 9 /\ trav_grid[1][1] = 0
    /\ grid_img[2][1] \in NoGoClasses /\ trav_grid[2][1] = 10

\* One class for each value of _TRAV_LUT: 10, 0, 5 and -1.
OneClassPerCost == {0, 2, 3, 9}

\* mask with its first k rows overwritten by class v
OverwriteTop(mask, k, v) ==
    [i \in 1 .. Height(mask) |->
        IF i <= k THEN [j \in 1 .. Width(mask) |-> v] ELSE mask[i]]

C4_TopLeftRepresentative ==
    GridReturned =>
        LET g == GroundMask(class_mask)
            gh == Len(g)
            gw == Len(g[1])
        IN  \A r \in 1 .. grid_rows, c \in 1 .. grid_cols :
                grid_img[r][c] =
                    g[((r - 1) * gh) \div grid_rows + 1]
                     [((c - 1) * gw) \div grid_cols + 1]

\* The pixels at the centre of output sample k of n_out over n_in input
\* samples: floor((k + 0.5) * n_in / n_out), and also the pixel before it when
\* the centre coordinate is an integer and the size changes.
CentrePixels(k, n_in, n_out) ==
    LET num == (2 * k + 1) * n_in
        den == 2 * n_out
    IN  IF num % den = 0 /\ n_in # n_out
        THEN {num \div den - 1, num \div den}
        ELSE {num \div den}

\* C4, amended: each cell (r,c) has the class of the ground-region pixel at
\* the cell's centre, (floor((r+0.5)*gh/grid_rows),
\* floor((c+0.5)*gw/grid_cols)); where a centre coordinate is an integer
\* (and the size in that direction changes) it is that pixel or the one
\* before it.
C4_CentreRepresentative ==
    GridReturned =>
        LET g == GroundMask(class_mask)
            gh == Len(g)
            gw == Len(g[1])
        IN  \A r \in 1 .. grid_rows, c \in 1 .. grid_cols :
                \E i \in CentrePixels(r - 1, gh, grid_rows),
                   j \in CentrePixels(c - 1, gw, grid_cols) :
                    grid_img[r][c] = g[i + 1][j + 1]

\* A 2-row ground region reduced to one grid row: the cell shows the second
\* row (the centre), not the first (the top-left pixel).
C4_Witness ==
    /\ GridReturned
    /\ Len(GroundMask(class_mask)) = 2
    /\ grid_rows = 1 /\ grid_cols = 1
    /\ GroundMask(class_mask)[1][1] # GroundMask(class_mask)[2][1]
    /\ grid_img[1][1] = GroundMask(class_mask)[2][1]

\* The ground region by the rule of the specification: the rows from
\* floor(0.35 * h) on.
GroundRegion(mask) == SubSeq(mask, Floor35(Height(mask)) + 1, Height(mask))

\* The pixels (1-based) of cell (r,c) in the proportional partition of a
\* gh x gw region into rows x cols cells: rows floor((r-1)*gh/rows) to
\* floor(r*gh/rows) - 1 and the columns alike; empty when the region has
\* fewer rows or columns than the grid.
CellPixels(r, c, gh, gw, rows, cols) ==
    (((r - 1) * gh) \div rows + 1 .. (r * gh) \div rows)
        \X (((c - 1) * gw) \div cols + 1 .. (c * gw) \div cols)

\* The cost of a cell by the threshold strategy: 10 when more than 30% of
\* its pixels are NoGo, else 5 when more than 30% are Caution, else 0.
ThresholdCost(region, cell) ==
    LET n == Cardinality(cell)
        no_go == Cardinality({ p \in cell :
                     TRAVERSABILITY[region[p[1]][p[2]] + 1] = "no_go" })
        caution == Cardinality({ p \in cell :
                       TRAVERSABILITY[region[p[1]][p[2]] + 1] = "caution" })
    IN  IF 10 * no_go > 3 * n THEN 10
        ELSE IF 10 * caution > 3 * n THEN 5
        ELSE 0

\* C18 as stated: the grid holds the costs of the threshold strategy.
C18_ThresholdStrategy ==
    GridReturned =>
        LET g == GroundRegion(class_mask)
        IN  \A r \in 1 .. grid_rows, c \in 1 .. grid_cols :
                trav_grid[r][c] =
                    ThresholdCost(g, CellPixels(r, c, Len(g), Len(g[1]),
                                                grid_rows, grid_cols))

\* The cost of a class by its category: Go and Sky 0, Caution 5, NoGo 10.
CategoryCost(class_id) ==
    CASE TRAVERSABILITY[class_id + 1] = "no_go" -> 10
      [] TRAVERSABILITY[class_id + 1] = "caution" -> 5
      [] OTHER -> 0

\* C18, amended: the Grid Aggregator (create_traversability_grid) implements
\* the nearest-neighbour strategy only: the cost of each cell is the cost of
\* the category of the one pixel at the cell's centre (10 NoGo, 5 Caution, 0
\* Go or Sky), whatever fraction of the cell's pixels each category has; it
\* is the cost of the threshold strategy where the ground region has one
\* class only and the cell is not empty.
C18_NearestStrategyOnly ==
    GridReturned =>
        LET g == GroundRegion(class_mask)
            gh == Len(g)
            gw == Len(g[1])
            uniform == \A i \in 1 .. gh, j \in 1 .. gw : g[i][j] = g[1][1]
        IN  \A r \in 1 .. grid_rows, c \in 1 .. grid_cols :
                LET cell == CellPixels(r, c, gh, gw, grid_rows, grid_cols)
                IN  /\ \E i \in CentrePixels(r - 1, gh, grid_rows),
                          j \in CentrePixels(c - 1, gw, grid_cols) :
                           trav_grid[r][c] = CategoryCost(g[i + 1][j + 1])
                    /\ (uniform /\ cell # {}) =>
                           trav_grid[r][c] = ThresholdCost(g, cell)

\* A ground region of a Trees row over a Dry Grass row reduced to one cell:
\* half of the cell is NoGo and its cost is 0, that of the centre pixel.
C18_Witness ==
    /\ GridReturned
    /\ class_mask = << <<2>>, <<0>>, <<2>> >>
    /\ grid_rows = 1 /\ grid_cols = 1
    /\ trav_grid = << <<0>> >>

(***************************************************************************)
(* Properties of calculate_traversability_stats, checked under SpecStats.  *)
(***************************************************************************)
StatsReturned == "stats" \in done

\* The texts of 0.0% to 100.0%, by tenths.
PercentTexts == [t \in 0 .. 1000 |-> FormatTenths(t)]

\* The number each one-decimal percentage text stands for, in tenths.
TextTenths ==
    [text \in { PercentTexts[t] : t \in 0 .. 1000 } |->
        CHOOSE t \in 0 .. 1000 : PercentTexts[t] = text]

IsOneDecimalPercent(text) == text \in DOMAIN TextTenths

TenthsOf(text) == TextTenths[text]

\* The pixels of the mask whose class has the given category.
PixelsOfCategory(mask, category) ==
    { p \in Pixels(mask) : TRAVERSABILITY[mask[p[1]][p[2]] + 1] = category }

NonSkyCount(mask) ==
    Cardinality(Pixels(mask)) - Cardinality(PixelsOfCategory(mask, "sky"))

\* tenths is a tenth nearest to 100 * count / total
IsNearestTenth(tenths, count, total) ==
    LET diff == 1000 * count - tenths * total
    IN  2 * diff <= total /\ -2 * diff <= total

\* C5: for a mask of Sky pixels only the result is exactly
\* {'safe': '0%', 'caution': '0%', 'blocked': '0%'} (no division by zero);
\* for a mask with a non-Sky pixel the three values are one-decimal
\* percentages, the normal path.
C5_AllSkyStatsZero ==
    StatsReturned =>
        IF NonSkyCount(class_mask) = 0
        THEN trav_stats = [safe |-> "0%", caution |-> "0%", blocked |-> "0%"]
        ELSE /\ IsOneDecimalPercent(trav_stats.safe)
             /\ IsOneDecimalPercent(trav_stats.caution)
             /\ IsOneDecimalPercent(trav_stats.blocked)

\* The statistics of a 2x3 mask of Sky have been returned.
C5_Witness ==
    /\ StatsReturned
    /\ Height(class_mask) = 2 /\ Width(class_mask) = 3
    /\ \A p \in Pixels(class_mask) : class_mask[p[1]][p[2]] = 9
    /\ trav_stats.safe = "0%"

\* C6: for a mask with a non-Sky pixel, safe, caution and blocked are
\* 100 * (pixels of category go / caution / no_go) / (pixels - Sky pixels),
\* each to one decimal place; a mask of NoGo classes only gives 0.0%, 0.0%
\* and 100.0%.
C6_StatsOverGroundPixels ==
    (StatsReturned /\ NonSkyCount(class_mask) > 0) =>
        LET ground == NonSkyCount(class_mask)
            go == Cardinality(PixelsOfCategory(class_mask, "go"))
            caution == Cardinality(PixelsOfCategory(class_mask, "caution"))
            no_go == Cardinality(PixelsOfCategory(class_mask, "no_go"))
        IN  /\ IsOneDecimalPercent(trav_stats.safe)
            /\ IsNearestTenth(TenthsOf(trav_stats.safe), go, ground)
            /\ IsOneDecimalPercent(trav_stats.caution)
            /\ IsNearestTenth(TenthsOf(trav_stats.caution), caution, ground)
            /\ IsOneDecimalPercent(trav_stats.blocked)
            /\ IsNearestTenth(TenthsOf(trav_stats.blocked), no_go, ground)
            /\ no_go = Cardinality(Pixels(class_mask)) =>
                  trav_stats =
                      [safe |-> "0.0%", caution |-> "0.0%", blocked |-> "100.0%"]

\* Three Sky pixels beside one free and two blocked pixels: a third and two
\* thirds of the ground, not a sixth and a third of the image.
C6_Witness ==
    /\ StatsReturned
    /\ Cardinality(PixelsOfCategory(class_mask, "sky")) = 3
    /\ trav_stats = [safe |-> "33.3%", caution |-> "0.0%", blocked |-> "66.7%"]

\* The sum of the three reported percentages, in tenths.
StatsSum ==
    IF trav_stats = ZeroGroundStats THEN 0
    ELSE TenthsOf(trav_stats.safe) + TenthsOf(trav_stats.caution)
         + TenthsOf(trav_stats.blocked)

\* C7 as stated: the three percentages sum to at most 100.0.
C7_StatsSumAtMost100 == StatsReturned => StatsSum <= 1000

\* C7, amended: the three percentages sum to at most 100.1; the sum is 99.9,
\* 100.0 or 100.1 for a mask with a non-Sky pixel and 0 for a mask of Sky.
C7_StatsSumWithinATenth ==
    StatsReturned =>
        IF NonSkyCount(class_mask) = 0
        THEN StatsSum = 0
        ELSE StatsSum \in {999, 1000, 1001}

\* One free, one caution and four blocked pixels: 16.7 + 16.7 + 66.7 = 100.1.
C7_Witness ==
    /\ StatsReturned
    /\ trav_stats = [safe |-> "16.7%", caution |-> "16.7%", blocked |-> "66.7%"]
    /\ StatsSum = 1001

(***************************************************************************)
(* Properties of the class distributions, checked under SpecDist.          *)
(***************************************************************************)
\* The sum of the percentages of a distribution, in tenths.
RECURSIVE SumOver(_, _)
SumOver(dist, names) ==
    IF names = {} THEN 0
    ELSE LET name == CHOOSE x \in names : TRUE
         IN  TenthsOf(dist[name]) + SumOver(dist, names \ {name})

DistSum(dist) == SumOver(dist, DOMAIN dist)

\* The classes with at least one pixel in the mask.
ClassesPresent(mask) ==
    { c \in ClassIds : \E p \in Pixels(mask) : mask[p[1]][p[2]] = c }

\* C8 as stated: the class-distribution percentages a pipeline reports sum
\* to at most 100.0.
C8_DistSumAtMost100 ==
    /\ "dist" \in done => DistSum(class_dist) <= 1000
    /\ "sim_dist" \in done => DistSum(sim_class_dist) <= 1000

\* C8, amended: the class-distribution percentages a pipeline reports, one
\* for each class with count > 0, sum to 100.0 up to the rounding of each:
\* the sum differs from 100.0 by at most 0.05 times the number of reported
\* classes, so it is at most 100.5.
SumWithinRounding(dist) ==
    LET sum == DistSum(dist)
        reported == Cardinality(DOMAIN dist)
    IN  /\ 2 * (sum - 1000) <= reported
        /\ 2 * (1000 - sum) <= reported
        /\ sum <= 1005

C8_DistSumWithinRounding ==
    /\ "dist" \in done => SumWithinRounding(class_dist)
    /\ "sim_dist" \in done => SumWithinRounding(sim_class_dist)

\* Six classes of one pixel each: six times 16.7 is 100.2.
C8_Witness ==
    /\ "dist" \in done
    /\ Cardinality(DOMAIN class_dist) = 6
    /\ DistSum(class_dist) = 1002

\* C9: for the same mask the counting loop of predict and the bincount of
\* predict_sim give the same class-distribution map; its keys are exactly the
\* names of the classes with pixel count > 0 and each value is
\* count / total_pixels * 100 to one decimal place.
C9_PipelinesSameDistribution ==
    ("dist" \in done /\ "sim_dist" \in done) =>
        /\ class_dist = sim_class_dist
        /\ DOMAIN class_dist =
              { CLASS_NAMES[c + 1] : c \in ClassesPresent(class_mask) }
        /\ \A c \in ClassesPresent(class_mask) :
              LET text == class_dist[CLASS_NAMES[c + 1]]
                  count == Cardinality({ p \in Pixels(class_mask) :
                                           class_mask[p[1]][p[2]] = c })
              IN  /\ IsOneDecimalPercent(text)
                  /\ IsNearestTenth(TenthsOf(text), count,
                                    Cardinality(Pixels(class_mask)))

\* Both pipelines have reported a mask of one Trees and two Sky pixels.
C9_Witness ==
    /\ "dist" \in done /\ "sim_dist" \in done
    /\ sim_class_dist = ("Trees" :> "33.3%") @@ ("Sky" :> "66.7%")
    /\ class_dist = sim_class_dist

(***************************************************************************)
(* Properties of create_overlay, checked under SpecOverlay.                *)
(***************************************************************************)
OverlayReturned == "overlay" \in done

\* C10: for a byte image and a mask of the same height and width with values
\* in [0,10), the overlay has the shape of the image; with alpha = 0 it is the
\* image, in every channel of every pixel; with alpha = 1 it is the colorized
\* mask, every pixel the colour of its class.
C10_OverlayEndpoints ==
    OverlayReturned =>
        /\ Len(overlay) = Len(image_np)
        /\ \A i \in 1 .. Len(image_np) :
              /\ Len(overlay[i]) = Len(image_np[i])
              /\ \A j \in 1 .. Len(image_np[i]) :
                    /\ Len(overlay[i][j]) = 3
                    /\ alpha = 0 => overlay[i][j] = image_np[i][j]
                    /\ alpha = 10 =>
                          overlay[i][j] = CLASS_COLORS[class_mask[i][j] + 1]

\* With alpha = 1 a black 2x2 image under a mask with a Sky pixel has become
\* the colours of the mask.
C10_Witness ==
    /\ OverlayReturned
    /\ alpha = 10
    /\ Len(image_np) = 2 /\ Len(image_np[1]) = 2
    /\ image_np[1][1] = <<0, 0, 0>> /\ class_mask[1][1] = 9
    /\ overlay[1][1] = <<135, 206, 235>>
    /\ overlay # image_np

\* Ten times the exact blend image*(1-alpha) + raster*alpha of channel k of
\* pixel (i,j), alpha being alpha/10.
ExactBlendTenths(i, j, k) ==
    image_np[i][j][k] * (10 - alpha)
    + CLASS_COLORS[class_mask[i][j] + 1][k] * alpha

OverlayChannels ==
    (1 .. Len(image_np)) \X (1 .. Len(image_np[1])) \X (1 .. 3)

\* C11 as stated: every channel of every pixel of the overlay is the blend
\* image*(1-alpha) + raster*alpha rounded to the nearest byte, a tie going
\* up or to the even byte (1 over 34 at alpha = 0.5 gives the rounded 17.5,
\* 18, not 17).
C11_OverlayRounded ==
    OverlayReturned =>
        \A ch \in OverlayChannels :
            LET v == ExactBlendTenths(ch[1], ch[2], ch[3])
                out == overlay[ch[1]][ch[2]][ch[3]]
            IN  /\ out \in 0 .. 255
                /\ 2 * (10 * out - v) <= 10
                /\ 2 * (v - 10 * out) <= 10
                /\ 2 * (v - 10 * out) = 10 => out % 2 = 0

\* The alphas whose float32 weights make a whole-number blend come out just
\* below the whole number.
InexactAlphaTenths == {1, 3, 7, 9}

\* C11, amended: every channel of every pixel of the overlay is the blend
\* image*(1-alpha) + raster*alpha with its fraction cut off, never rounded up
\* (1 over 34 at alpha = 0.5 gives 17); it lies in [0,255] without clamping;
\* and where the blend is a whole number and alpha is 0.1, 0.3, 0.7 or 0.9
\* the single-precision sum may fall just below it and give one less.
C11_OverlayTruncated ==
    OverlayReturned =>
        \A ch \in OverlayChannels :
            LET v == ExactBlendTenths(ch[1], ch[2], ch[3])
                out == overlay[ch[1]][ch[2]][ch[3]]
            IN  /\ out \in 0 .. 255
                /\ 10 * out <= v
                /\ \/ v < 10 * (out + 1)
                   \/ v = 10 * (out + 1) /\ alpha \in InexactAlphaTenths

\* At alpha = 0.5 the pixel (1,128,254) under Trees (34,139,34) has become
\* (17,133,144): 17.5 and 133.5 cut to 17 and 133.
C11_Witness ==
    /\ OverlayReturned
    /\ alpha = 5
    /\ image_np[1][1] = <<1, 128, 254>> /\ class_mask[1][1] = 0
    /\ overlay[1][1] = <<17, 133, 144>>

(***************************************************************************)
(* Properties of colorize_mask and create_traversability_map, checked      *)
(* under SpecColorize.                                                     *)
(***************************************************************************)
HasNoClassValue(mask) ==
    \E p \in Pixels(mask) : mask[p[1]][p[2]] \notin ClassIds

\* C12 as stated: a mask with a value outside [0,10) is an error for the
\* colorizer: colorize_mask and create_traversability_map raise instead of
\* returning a raster, so neither call returns for such a mask.
C12_NoClassValueRaises ==
    HasNoClassValue(class_mask) =>
        "colorize" \notin done /\ "trav_map" \notin done

\* C12, amended: colorize_mask and create_traversability_map raise no error
\* for a mask with values outside [0,10): both return a raster of the mask's
\* shape in which those pixels are black (0,0,0) and every other pixel has
\* the colour of its class, respectively of its class's category.
C12_NoClassValuePaintedBlack ==
    /\ "colorize" \in done =>
          /\ Len(colored_mask) = Height(class_mask)
          /\ \A i \in 1 .. Height(class_mask) :
                /\ Len(colored_mask[i]) = Width(class_mask)
                /\ \A j \in 1 .. Width(class_mask) :
                      colored_mask[i][j] =
                          IF class_mask[i][j] \in 0 .. 9
                          THEN CLASS_COLORS[class_mask[i][j] + 1]
                          ELSE <<0, 0, 0>>
    /\ "trav_map" \in done =>
          /\ Len(trav_map) = Height(class_mask)
          /\ \A i \in 1 .. Height(class_mask) :
                /\ Len(trav_map[i]) = Width(class_mask)
                /\ \A j \in 1 .. Width(class_mask) :
                      trav_map[i][j] =
                          IF class_mask[i][j] \in 0 .. 9
                          THEN TRAV_COLORS[TRAVERSABILITY[class_mask[i][j] + 1]]
                          ELSE <<0, 0, 0>>

\* Both functions have returned for a mask of Sky with one pixel of value
\* 10: the pixel is black in both rasters, beside the Sky colours.
C12_Witness ==
    /\ "colorize" \in done /\ "trav_map" \in done
    /\ Height(class_mask) = 1 /\ Width(class_mask) = 2
    /\ class_mask = << <<10, 9>> >>
    /\ colored_mask = << << <<0, 0, 0>>, <<135, 206, 235>> >> >>
    /\ trav_map = << << <<0, 0, 0>>, <<180, 210, 240>> >> >>

(***************************************************************************)
(* Properties of the server, checked under SpecServer.                     *)
(***************************************************************************)
Answered == { r \in 1 .. Len(requests) : requests[r].pc = "done" }

ModelLoaded == model # "None"

\* C13: in every reachable server state a request to GET / that has been
\* answered got 200 with status 'running' and model_loaded equal to (model is
\* not None), and one not yet answered can be; whenever the model is not
\* loaded, POST /predict, POST /predict/sim and GET /model/info are answered
\* with 503, the body unread and nothing post-processed, and no handler is
\* waiting for a body; whenever it is loaded GET /model/info is answered 200.
C13_HealthAndUnavailable ==
    /\ \A r \in 1 .. Len(requests) :
          (requests[r].endpoint = "/" /\ requests[r].pc = "start") =>
              ENABLED HealthCheck(r)
    /\ ~ModelLoaded => \A r \in 1 .. Len(requests) : requests[r].pc # "read"
    /\ \A r \in Answered :
          LET req == requests[r]
          IN  /\ req.endpoint = "/" =>
                    /\ req.status = 200
                    /\ req.payload.status = "running"
                    /\ req.payload.model_loaded = ModelLoaded
              /\ (req.endpoint # "/" /\ ~ModelLoaded) =>
                    /\ req.status = 503
                    /\ ~req.body_read
                    /\ req.payload = [detail |-> "Model not loaded"]
              /\ (req.endpoint = "/model/info" /\ ModelLoaded) =>
                    req.status = 200

\* The checkpoint file was missing: the health check has said so with a 200
\* and an upload of an image to /predict/sim has got a 503, unread.
C13_Witness ==
    /\ load_error = "FileNotFoundError"
    /\ Len(requests) = 2
    /\ requests[1].endpoint = "/" /\ requests[1].status = 200
    /\ requests[1].payload = [status |-> "running", model_loaded |-> FALSE]
    /\ requests[2].endpoint = "/predict/sim" /\ requests[2].body.decodable
    /\ requests[2].status = 503 /\ ~requests[2].body_read

\* The uploads that have been answered with the model loaded.
AnsweredUploads ==
    { r \in Answered : requests[r].endpoint \in PostEndpoints /\ ModelLoaded }

\* C14 as stated: with the model loaded, an undecodable upload to /predict or
\* /predict/sim is answered with a 4xx status.
C14_MalformedIsClientError ==
    \A r \in AnsweredUploads :
        ~requests[r].body.decodable => requests[r].status \in 400 .. 499

\* C14, amended: with the model loaded, an undecodable upload to /predict or
\* /predict/sim is answered with the internal-error status 500, after its
\* body was read, and a well-formed upload is answered 200 with the
\* statistics of its own image, also after a failed request.
C14_MalformedIsInternalError ==
    \A r \in AnsweredUploads :
        LET req == requests[r]
        IN  IF req.body.decodable
            THEN /\ req.status = 200
                 /\ req.payload.traversability_stats =
                        TraversabilityStats(req.body.pred_mask)
            ELSE /\ req.status = 500
                 /\ req.body_read

\* An undecodable upload to /predict got 500 and the upload of an image that
\* came after it got 200.
C14_Witness ==
    /\ ModelLoaded
    /\ Len(requests) = 2
    /\ requests[1].endpoint = "/predict" /\ ~requests[1].body.decodable
    /\ requests[1].status = 500
    /\ requests[2].endpoint = "/predict" /\ requests[2].body.decodable
    /\ requests[2].status = 200
    /\ requests[2].payload.traversability_stats.blocked = "100.0%"

StartupFailed == load_error # ""

\* C15 as stated: there is no reachable state in which startup has failed
\* and an endpoint has answered a request.
C15_NoAnswerAfterFailedStartup == StartupFailed => Answered = {}

\* C15, amended: if startup hits a load failure (no checkpoint, or one whose
\* class count does not match), the process goes on to accept requests with
\* model = None: every request it answers is a health check answered 200
\* with model_loaded false or another endpoint answered 503, and no upload
\* is ever read.
C15_FailedStartupAnswersUnavailable ==
    StartupFailed =>
        /\ phase = "serving"
        /\ model = "None"
        /\ \A r \in 1 .. Len(requests) : ~requests[r].body_read
        /\ \A r \in Answered :
              IF requests[r].endpoint = "/"
              THEN requests[r].status = 200 /\ ~requests[r].payload.model_loaded
              ELSE requests[r].status = 503

\* The checkpoint had another class count: afterwards /model/info and
\* /predict have been answered 503 and the health check 200.
C15_Witness ==
    /\ load_error = "RuntimeError"
    /\ Len(requests) = 3
    /\ requests[1].endpoint = "/model/info" /\ requests[1].status = 503
    /\ requests[2].endpoint = "/predict" /\ requests[2].status = 503
    /\ requests[3].endpoint = "/" /\ requests[3].status = 200

\* What a request gets when it is the only request of a server that has
\* started with the same model: its status and its payload.
AloneStatus(req) ==
    CASE req.endpoint = "/" -> 200
      [] req.endpoint # "/" /\ ~ModelLoaded -> 503
      [] req.endpoint = "/model/info" /\ ModelLoaded -> 200
      [] OTHER -> IF req.body.decodable THEN 200 ELSE 500

AlonePayload(req) ==
    CASE req.endpoint = "/" ->
             [status |-> "running", model_loaded |-> ModelLoaded]
      [] req.endpoint # "/" /\ ~ModelLoaded -> [detail |-> "Model not loaded"]
      [] req.endpoint = "/model/info" /\ ModelLoaded -> [model_type |-> model]
      [] OTHER ->
             IF ~req.body.decodable THEN [detail |-> "UnidentifiedImageError"]
             ELSE IF req.endpoint = "/predict"
             THEN [class_distribution |-> PredictClassDist(req.body.pred_mask),
                   traversability_stats |->
                       TraversabilityStats(req.body.pred_mask)]
             ELSE [traversability_stats |->
                       TraversabilityStats(req.body.pred_mask),
                   traversability_grid |->
                       TraversabilityGrid(req.body.pred_mask, 12, 8),
                   class_distribution |-> SimClassDist(req.body.pred_mask),
                   dominant_class |->
                       CLASS_NAMES[SimDominant(req.body.pred_mask) + 1],
                   confidence |-> SimConfidence(req.body.pred_mask)]

\* C19: for any interleaving of concurrently handled /predict and
\* /predict/sim requests, successful or failing: the globals are initialised
\* before the first request is received (startup is over and _TRAV_LUT holds
\* its ten costs); no step of a handler writes the global model or _TRAV_LUT
\* (CLASS_COLORS, TRAVERSABILITY and TRAV_COLORS are assigned by no statement
\* and are constants here); and the response of every request is the one it
\* gets when processed alone.
C19_RequestIsolation ==
    /\ [](requests # << >> =>
             phase = "serving" /\ trav_lut = << 10, 10, 0, 5, 5, 0, 10, 5, 0, -1 >>)
    /\ [][phase = "serving" => (model' = model /\ trav_lut' = trav_lut)]_vars
    /\ [](\A r \in Answered :
             /\ requests[r].status = AloneStatus(requests[r])
             /\ requests[r].payload = AlonePayload(requests[r]))

\* While the handler of the first upload waits for its body, a malformed
\* upload has been answered 500 and another image has been answered 200.
C19_Witness ==
    /\ ModelLoaded
    /\ Len(requests) = 3
    /\ requests[1].endpoint = "/predict/sim" /\ requests[1].pc = "read"
    /\ requests[1].body.decodable
    /\ requests[2].endpoint = "/predict" /\ requests[2].status = 500
    /\ requests[3].endpoint = "/predict/sim" /\ requests[3].status = 200
    /\ requests[3].body # requests[1].body

(***************************************************************************)
(* Properties of repeated calls, checked under SpecRepeat.                 *)
(***************************************************************************)
\* C16: after any sequence of earlier calls of create_traversability_grid
\* and calculate_traversability_stats on arbitrary masks, a call on a given
\* mask (and grid dimensions) returns what the first call on them returned;
\* and the overwrite of the negative costs in a call never changes the shared
\* table _TRAV_LUT, whose Sky entry stays -1.
C16_RepeatedCallsAgree ==
    /\ trav_lut = << 10, 10, 0, 5, 5, 0, 10, 5, 0, -1 >>
    /\ "grid" \in done =>
          trav_grid = first_grid[<<class_mask, grid_cols, grid_rows>>]
    /\ "stats" \in done => trav_stats = first_stats[class_mask]

\* Three calls, two of them with the same arguments; the latest returned a
\* grid with a cell sampled from Sky and set to 0, and the table still holds
\* -1 for Sky.
C16_Witness ==
    /\ calls = 3
    /\ "grid" \in done
    /\ Cardinality(DOMAIN first_grid) + Cardinality(DOMAIN first_stats) = 2
    /\ \E r \in 1 .. grid_rows, c \in 1 .. grid_cols :
          grid_img[r][c] = 9 /\ trav_grid[r][c] = 0
    /\ trav_lut[10] = -1

(***************************************************************************)
(* Properties of predict's traversability overlay, checked under           *)
(* SpecTravOverlay.                                                        *)
(***************************************************************************)
\* The colour of the category of a class.
CategoryColour(class_id) ==
    CASE class_id \in {2, 5, 8} -> <<0, 200, 0>>
      [] class_id \in {3, 4, 7} -> <<255, 180, 0>>
      [] class_id \in {0, 1, 6} -> <<220, 30, 30>>
      [] class_id = 9 -> <<180, 210, 240>>

\* C17: in predict the traversability overlay blends the original image with
\* category colours only: for every pixel, whose class is in [0,10), each
\* channel is 0.4*image + 0.6*TRAV_COLORS[category of the class] with its
\* fraction cut off, whatever CLASS_COLORS holds; no pixel keeps the value of
\* the class-colour overlay computed first, unless the two colours give the
\* same bytes.
C17_TravOverlayFromCategoryColours ==
    "trav_overlay" \in done =>
        \A ch \in OverlayChannels :
            LET out == trav_overlay[ch[1]][ch[2]][ch[3]]
                v == 4 * image_np[ch[1]][ch[2]][ch[3]]
                     + 6 * CategoryColour(class_mask[ch[1]][ch[2]])[ch[3]]
            IN  10 * out <= v /\ v < 10 * (out + 1)

\* A white image under Sky: the class-colour overlay (183,225,243) computed
\* first has been replaced by the blend with the Sky category colour.
C17_Witness ==
    /\ "trav_overlay" \in done
    /\ image_np[1][1] = <<255, 255, 255>> /\ class_mask[1][1] = 9
    /\ overlay[1][1] = <<183, 225, 243>>
    /\ trav_overlay[1][1] = <<210, 228, 246>>

(***************************************************************************)
(* Properties of the taxonomy tables, checked under SpecTaxonomy.          *)
(***************************************************************************)
\* The class of a mask of one class.
TheClass(mask) == mask[1][1]

\* The cost the grid gives every cell, the colour the raster gives every
\* pixel.
GridIsAll(cost) ==
    \A r \in 1 .. grid_rows, c \in 1 .. grid_cols : trav_grid[r][c] = cost

MapIsAll(colour) ==
    \A p \in Pixels(class_mask) : trav_map[p[1]][p[2]] = colour

\* C20: for every ClassId in [0,10), _TRAV_LUT[c] is 0 exactly when
\* TRAVERSABILITY[c] is 'go', 5 exactly when 'caution', 10 exactly when
\* 'no_go' and -1 exactly when 'sky', and 9, the Sky id written out in
\* calculate_traversability_stats, is the only class of category 'sky'; so
\* for a mask of one class the grid, the raster and the statistics agree: all
\* cells 0, all pixels green and 100.0% safe; or 5, orange and 100.0%
\* caution; or 10, red and 100.0% blocked; or, for Sky, 0, light blue and the
\* statistics of no ground.
C20_EncodingsAgree ==
    /\ \A c \in ClassIds :
          /\ _TRAV_LUT[c + 1] = 0 <=> TRAVERSABILITY[c + 1] = "go"
          /\ _TRAV_LUT[c + 1] = 5 <=> TRAVERSABILITY[c + 1] = "caution"
          /\ _TRAV_LUT[c + 1] = 10 <=> TRAVERSABILITY[c + 1] = "no_go"
          /\ _TRAV_LUT[c + 1] = -1 <=> TRAVERSABILITY[c + 1] = "sky"
          /\ TRAVERSABILITY[c + 1] = "sky" <=> c = 9
    /\ done = {"grid", "stats", "trav_map"} =>
          \/ /\ GridIsAll(0) /\ MapIsAll(<<0, 200, 0>>)
             /\ trav_stats =
                    [safe |-> "100.0%", caution |-> "0.0%", blocked |-> "0.0%"]
          \/ /\ GridIsAll(5) /\ MapIsAll(<<255, 180, 0>>)
             /\ trav_stats =
                    [safe |-> "0.0%", caution |-> "100.0%", blocked |-> "0.0%"]
          \/ /\ GridIsAll(10) /\ MapIsAll(<<220, 30, 30>>)
             /\ trav_stats =
                    [safe |-> "0.0%", caution |-> "0.0%", blocked |-> "100.0%"]
          \/ /\ TheClass(class_mask) = 9
             /\ GridIsAll(0) /\ MapIsAll(<<180, 210, 240>>)
             /\ trav_stats = [safe |-> "0%", caution |-> "0%", blocked |-> "0%"]

\* A mask of Rocks has gone through the three: cost 5 everywhere, orange
\* everywhere, 100.0% caution.
C20_Witness ==
    /\ done = {"grid", "stats", "trav_map"}
    /\ TheClass(class_mask) = 7
    /\ Height(class_mask) = 3 /\ Width(class_mask) = 2
    /\ grid_rows = 2 /\ grid_cols = 2
    /\ trav_grid = << <<5, 5>>, <<5, 5>> >>
    /\ trav_map[3][2] = <<255, 180, 0>>
    /\ trav_stats.caution = "100.0%"

(***************************************************************************)
(* Properties of the dominant class and the confidence of predict_sim,     *)
(* checked under SpecDominant.                                             *)
(***************************************************************************)
\* The number of pixels of class c in the mask.
PixelCount(mask, c) ==
    Cardinality({ p \in Pixels(mask) : mask[p[1]][p[2]] = c })

\* C21: in the low-latency pipeline, for every non-empty mask with values in
\* [0, 10), the reported dominant class is a class of maximal pixel count,
\* the lowest class id among ties; the reported confidence equals that
\* class's pixel count divided by the total pixel count, hence lies in
\* [1/10, 1]; and the name of the dominant class is a key of the reported
\* class distribution.
C21_DominantClassAndConfidence ==
    "dominant" \in done =>
        LET total == Cardinality(Pixels(class_mask))
            most == PixelCount(class_mask, dominant)
        IN  /\ dominant \in ClassIds
            /\ \A c \in ClassIds : PixelCount(class_mask, c) <= most
            /\ \A c \in ClassIds :
                  PixelCount(class_mask, c) = most => dominant <= c
            /\ conf[1] * total = most * conf[2]
            /\ conf[2] > 0
            /\ 10 * conf[1] >= conf[2]
            /\ conf[1] <= conf[2]
            /\ CLASS_NAMES[dominant + 1] \in DOMAIN sim_class_dist

\* A mask of two rows with one pixel of every class: all ten classes tie,
\* Trees (0) is reported with confidence 1/10 and is a key of the
\* distribution.
C21_Witness ==
    /\ "dominant" \in done
    /\ Height(class_mask) = 2 /\ Width(class_mask) = 5
    /\ \A c \in ClassIds : PixelCount(class_mask, c) = 1
    /\ dominant = 0
    /\ conf = <<1, 10>>
    /\ sim_class_dist["Trees"] = "10.0%"

====
